---- MODULE Spec2Model ----
(***************************************************************************)
(* Model of pocketmod_creator.py: main() runs check_input_file,            *)
(* input_size_orientation and pocket_modder in sequence on one input       *)
(* file.                                                                   *)
(*                                                                         *)
(* Lengths.  PyPDF2 measures in points (1/72 inch); the script works in    *)
(* millimetres, 1 point = 0.3528 mm = 441/1250 mm.  Every length the       *)
(* script hands to PyPDF2 is a whole number of millimetres divided by 2    *)
(* or 4 and then by 0.3528, i.e. a multiple of 1/1764 point, so lengths    *)
(* in points are kept as whole numbers of 1/1764 point.  The scale factor  *)
(* is a quotient of two lengths and is kept as a fraction <<n, d>> in      *)
(* lowest terms.                                                           *)
(***************************************************************************)
EXTENDS Integers, Sequences, FiniteSets, TLC

\* ---------------------------------------------------------------- bounds
\* media box sides 1 .. MaxPts points are tried, next to the two sides of A4
MaxPts == 5
\* documents of 0 .. MaxPages pages are tried
MaxPages == 10

\* ------------------------------------------------------------- arithmetic
\* one point is SubPt units of length
SubPt == 1764

\* 0.3528 = MmNum / MmDen
MmNum == 441
MmDen == 1250

Abs(a) == IF a < 0 THEN -a ELSE a

Min(a, b) == IF a <= b THEN a ELSE b

Max(a, b) == IF a >= b THEN a ELSE b

RECURSIVE Gcd(_, _)
Gcd(a, b) == IF b = 0 THEN a ELSE Gcd(b, a % b)

\* the fraction n/d in lowest terms (d > 0)
Frac(n, d) == LET g == Gcd(n, d) IN IF g = 0 THEN <<n, d>> ELSE <<n \div g, d \div g>>

\* p/q <= r/s, for fractions with positive denominators
FracLeq(a, b) == a[1] * b[2] <= b[1] * a[2]

\* Python's min(a, b) on two numbers: b only if it is strictly smaller
FracMin(a, b) == IF FracLeq(a, b) THEN a ELSE b

\* Python's round(n / d) for n >= 0, d > 0: nearest integer, ties to even
Round(n, d) ==
    LET q == n \div d
        r == n % d
    IN  IF 2 * r < d THEN q
        ELSE IF 2 * r > d THEN q + 1
        ELSE IF q % 2 = 0 THEN q ELSE q + 1

\* float(points) * 0.3528, rounded: the side in whole millimetres
ToMm(points) == Round(points * MmNum, MmDen)

\* mm / 0.3528 in units of 1/SubPt point, for mm = k / quarter with quarter | 4
\* (k / quarter) / 0.3528 = k * 1250 / (441 * quarter) = k * 5000/quarter / 1764
ToPoints(k, quarter) == k * ((4 \div quarter) * MmDen)

\* ------------------------------------------------------------ file names
Lower(c) ==
    CASE c = "P" -> "p"
      [] c = "D" -> "d"
      [] c = "F" -> "f"
      [] c = "A" -> "a"
      [] OTHER -> c

LowerStr(s) == [k \in 1..Len(s) |-> Lower(s[k])]

\* os.path.basename: what follows the last "/"
Basename(p) ==
    LET slashes == {k \in 1..Len(p) : p[k] = "/"}
        last == IF slashes = {} THEN 0 ELSE CHOOSE k \in slashes : \A m \in slashes : m <= k
    IN  SubSeq(p, last + 1, Len(p))

\* s[-3:]
Last3(s) == SubSeq(s, Max(1, Len(s) - 2), Len(s))

\* os.path.basename(input_file)[-3:].lower() == 'pdf'
IsPdfName(p) == LowerStr(Last3(Basename(p))) = <<"p", "d", "f">>

\* the command-line arguments tried
InputFiles ==
    { <<"a", ".", "p", "d", "f">>,
      <<"A", ".", "P", "D", "F">>,
      <<"d", "/", "p", "d", "f">>,
      <<"a", ".", "t", "x", "t">>,
      <<"p", "d", "f", "/", "a">>,
      <<"d", "f">> }

\* media box sides tried, in points: small ones and A4 (595 x 842)
PageSides == (1..MaxPts) \cup {595, 842}

\* ------------------------------------------------------------------ state
VARIABLES
    input_file,     \* args.input_file, a sequence of characters
    isfile,         \* os.path.isfile(input_file)
    NumPages,       \* getNumPages() of the document
    media_box,      \* <<mediaBox[2], mediaBox[3]>> of page 0 (and of the pages after it), in points
    pc,             \* position in main()
    error,          \* the exception that ended the run, or "none"
    warned,         \* the more-than-8-pages message has been printed
    opened,         \* how many times the document has been opened for reading
    size,           \* what input_size_orientation returned, or <<>>
    width,          \* pocket_modder's width  (mm)
    height,         \* pocket_modder's height (mm)
    orientation,    \* pocket_modder's orientation
    x_translation,  \* in 1/SubPt point
    y_translation,  \* in 1/SubPt point
    scale,          \* fraction <<n, d>>
    new_pdf,        \* <<width, height>> of the blank page in 1/SubPt point, or <<>>
    i,              \* loop counter of pocket_modder
    merged,         \* the mergeRotatedScaledTranslatedPage calls made, in order
    out_files,      \* how many times writer.write has run
    log             \* the steps of the run, in order

vars == <<input_file, isfile, NumPages, media_box, pc, error, warned, opened,
          size, width, height, orientation, x_translation, y_translation,
          scale, new_pdf, i, merged, out_files, log>>

env == <<input_file, isfile, NumPages, media_box>>

layout == <<width, height, orientation, x_translation, y_translation, scale, new_pdf, i>>

Init ==
    /\ input_file \in InputFiles
    /\ isfile \in BOOLEAN
    /\ NumPages \in 0..MaxPages
    /\ media_box \in PageSides \X PageSides
    /\ pc = "check"
    /\ error = "none"
    /\ warned = FALSE
    /\ opened = 0
    /\ size = <<>>
    /\ width = 0
    /\ height = 0
    /\ orientation = "unset"
    /\ x_translation = 0
    /\ y_translation = 0
    /\ scale = <<0, 1>>
    /\ new_pdf = <<>>
    /\ i = 0
    /\ merged = <<>>
    /\ out_files = 0
    /\ log = <<>>

\* an exception leaves main()
Raise(e) ==
    /\ error' = e
    /\ pc' = "error"

\* ------------------------------------------------------- check_input_file
\* variant: the page count is read before the name is looked at
check_input_file_reads_first ==
    /\ pc = "check"
    /\ log' = Append(log, "validate")
    /\ opened' = opened + 1
    /\ IF ~isfile
       THEN /\ Raise("FileNotFoundError")
            /\ UNCHANGED warned
       ELSE IF ~IsPdfName(input_file)
       THEN /\ Raise("ValueError")
            /\ UNCHANGED warned
       ELSE /\ warned' = (NumPages > 8)
            /\ pc' = "size"
            /\ UNCHANGED error
    /\ UNCHANGED <<env, size, layout, merged, out_files>>

\* variant: more than 8 pages is raised instead of printed
check_input_file_raises_warning ==
    /\ pc = "check"
    /\ log' = Append(log, "validate")
    /\ IF ~isfile
       THEN /\ Raise("FileNotFoundError")
            /\ UNCHANGED <<warned, opened>>
       ELSE IF ~IsPdfName(input_file)
       THEN /\ Raise("ValueError")
            /\ UNCHANGED <<warned, opened>>
       ELSE /\ opened' = opened + 1
            /\ warned' = (NumPages > 8)
            /\ IF NumPages > 8
               THEN Raise("TooManyPages")
               ELSE pc' = "size" /\ UNCHANGED error
    /\ UNCHANGED <<env, size, layout, merged, out_files>>

check_input_file ==
    /\ pc = "check"
    /\ log' = Append(log, "validate")
    /\ IF ~isfile
       THEN /\ Raise("FileNotFoundError")
            /\ UNCHANGED <<warned, opened>>
       ELSE IF ~IsPdfName(input_file)
       THEN /\ Raise("ValueError")
            /\ UNCHANGED <<warned, opened>>
       ELSE /\ opened' = opened + 1
            /\ warned' = (NumPages > 8)
            /\ pc' = "size"
            /\ UNCHANGED error
    /\ UNCHANGED <<env, size, layout, merged, out_files>>

\* ------------------------------------------------- input_size_orientation
\* variant: a square page counts as Landscape
OrientationTieLandscape(w, h) == IF w >= h THEN "Landscape" ELSE "Portrait"

Orientation(w, h) == IF w > h THEN "Landscape" ELSE "Portrait"

input_size_orientation ==
    /\ pc = "size"
    /\ opened' = opened + 1
    /\ log' = Append(log, "detect")
    /\ IF NumPages = 0
       THEN \* getPage(0) of a document without pages
            /\ Raise("IndexError")
            /\ UNCHANGED size
       ELSE /\ size' = <<ToMm(media_box[1]), ToMm(media_box[2]),
                         Orientation(ToMm(media_box[1]), ToMm(media_box[2]))>>
            /\ pc' = "modder"
            /\ UNCHANGED error
    /\ UNCHANGED <<env, warned, layout, merged, out_files>>

\* ---------------------------------------------------------- pocket_modder
\* lines 93-94: the sides after the Landscape swap
NormWidth(w, h, o) == IF o = "Landscape" THEN h ELSE w

NormHeight(w, h, o) == IF o = "Landscape" THEN w ELSE h

\* lines 97, 100: output_width / pypdf_scale with output_width = height / 4
XTranslation(h) == ToPoints(h, 4)

\* lines 98, 101: output_height / pypdf_scale with output_height = width / 2
YTranslation(w) == ToPoints(w, 2)

\* variant: the larger of the two ratios
ScaleMax(w, h) ==
    IF FracLeq(Frac(h, 4 * w), Frac(w, 2 * h)) THEN Frac(w, 2 * h) ELSE Frac(h, 4 * w)

\* line 104: min(output_width / width, output_height / height)
Scale(w, h) == FracMin(Frac(h, 4 * w), Frac(w, 2 * h))

\* variant: the Landscape rows carry the Portrait rotations
transformation_dict_mixed(xt, yt) ==
    [o \in {"Landscape", "Portrait"} |->
        IF o = "Landscape"
        THEN [k \in 0..7 |->
                CASE k = 0 -> <<0, yt, 180>>
                  [] k = 1 -> <<xt, yt, 0>>
                  [] k = 2 -> <<xt * 2, yt, 0>>
                  [] k = 3 -> <<xt * 3, yt, 0>>
                  [] k = 4 -> <<xt * 4, yt, 0>>
                  [] k = 5 -> <<xt * 3, yt, 180>>
                  [] k = 6 -> <<xt * 2, yt, 180>>
                  [] k = 7 -> <<xt, yt, 180>>]
        ELSE [k \in 0..7 |->
                CASE k = 0 -> <<xt, yt, 180>>
                  [] k = 1 -> <<0, yt, 0>>
                  [] k = 2 -> <<xt, yt, 0>>
                  [] k = 3 -> <<xt * 2, yt, 0>>
                  [] k = 4 -> <<xt * 3, yt, 0>>
                  [] k = 5 -> <<xt * 4, yt, 180>>
                  [] k = 6 -> <<xt * 3, yt, 180>>
                  [] k = 7 -> <<xt * 2, yt, 180>>]]

\* variant: page 6 is put where page 5 goes
transformation_dict_shared_cell(xt, yt) ==
    [o \in {"Landscape", "Portrait"} |->
        IF o = "Landscape"
        THEN [k \in 0..7 |->
                CASE k = 0 -> <<0, yt, 270>>
                  [] k = 1 -> <<xt, yt, 90>>
                  [] k = 2 -> <<xt * 2, yt, 90>>
                  [] k = 3 -> <<xt * 3, yt, 90>>
                  [] k = 4 -> <<xt * 4, yt, 90>>
                  [] k = 5 -> <<xt * 3, yt, 270>>
                  [] k = 6 -> <<xt * 3, yt, 270>>
                  [] k = 7 -> <<xt, yt, 270>>]
        ELSE [k \in 0..7 |->
                CASE k = 0 -> <<xt, yt, 180>>
                  [] k = 1 -> <<0, yt, 0>>
                  [] k = 2 -> <<xt, yt, 0>>
                  [] k = 3 -> <<xt * 2, yt, 0>>
                  [] k = 4 -> <<xt * 3, yt, 0>>
                  [] k = 5 -> <<xt * 4, yt, 180>>
                  [] k = 6 -> <<xt * 4, yt, 180>>
                  [] k = 7 -> <<xt * 2, yt, 180>>]]

\* lines 106-125: page index -> <<x, y, rotation>>
transformation_dict(xt, yt) ==
    [o \in {"Landscape", "Portrait"} |->
        IF o = "Landscape"
        THEN [k \in 0..7 |->
                CASE k = 0 -> <<0, yt, 270>>
                  [] k = 1 -> <<xt, yt, 90>>
                  [] k = 2 -> <<xt * 2, yt, 90>>
                  [] k = 3 -> <<xt * 3, yt, 90>>
                  [] k = 4 -> <<xt * 4, yt, 90>>
                  [] k = 5 -> <<xt * 3, yt, 270>>
                  [] k = 6 -> <<xt * 2, yt, 270>>
                  [] k = 7 -> <<xt, yt, 270>>]
        ELSE [k \in 0..7 |->
                CASE k = 0 -> <<xt, yt, 180>>
                  [] k = 1 -> <<0, yt, 0>>
                  [] k = 2 -> <<xt, yt, 0>>
                  [] k = 3 -> <<xt * 2, yt, 0>>
                  [] k = 4 -> <<xt * 3, yt, 0>>
                  [] k = 5 -> <<xt * 4, yt, 180>>
                  [] k = 6 -> <<xt * 3, yt, 180>>
                  [] k = 7 -> <<xt * 2, yt, 180>>]]

\* variant: addBlankPage(width / pypdf_scale, height / pypdf_scale)
BlankPageUpright(w, h) == <<ToPoints(w, 1), ToPoints(h, 1)>>

\* line 127: addBlankPage(height / pypdf_scale, width / pypdf_scale)
BlankPage(w, h) == <<ToPoints(h, 1), ToPoints(w, 1)>>

\* lines 86-128: everything up to the loop
pocket_modder_layout ==
    /\ pc = "modder"
    /\ opened' = opened + 1
    /\ LET o == size[3]
           w == NormWidth(size[1], size[2], o)
           h == NormHeight(size[1], size[2], o)
       IN  /\ orientation' = o
           /\ width' = w
           /\ height' = h
           /\ x_translation' = XTranslation(h)
           /\ y_translation' = YTranslation(w)
           /\ IF w = 0 \/ h = 0
              THEN \* line 104 divides by width and by height
                   /\ Raise("ZeroDivisionError")
                   /\ UNCHANGED <<scale, new_pdf, log>>
              ELSE /\ scale' = Scale(w, h)
                   /\ new_pdf' = BlankPage(w, h)
                   /\ log' = Append(log, "sheet")
                   /\ pc' = "compose"
                   /\ UNCHANGED error
    /\ i' = 0
    /\ UNCHANGED <<env, warned, size, merged, out_files>>

\* variant: the loop stops one page early
LoopConditionShort == i < 7 /\ i < NumPages

\* line 129
LoopCondition == i < 8 /\ i < NumPages

\* lines 131-137: the arguments of one mergeRotatedScaledTranslatedPage call
MergeCall(k) ==
    LET t == transformation_dict(x_translation, y_translation)[orientation][k]
    IN  [page |-> k, rotation |-> t[3], scale |-> scale,
         tx |-> t[1], ty |-> t[2], expand |-> FALSE]

\* mergeRotatedScaledTranslatedPage turns the page counter-clockwise about the
\* origin, then scales it, then moves it: the box <<xlo, xhi, ylo, yhi>> of
\* the page [0, pw] x [0, ph] after the turn
RotatedBox(pw, ph, r) ==
    CASE r = 0 -> <<0, pw, 0, ph>>
      [] r = 90 -> <<-ph, 0, 0, pw>>
      [] r = 180 -> <<-pw, 0, -ph, 0>>
      [] r = 270 -> <<0, ph, -pw, 0>>

\* the box a call draws a page of pw x ph (in 1/SubPt point) into; with the
\* call's scale n/d the box is given in units of 1/(SubPt * d) point
Footprint(c, pw, ph) ==
    LET b == RotatedBox(pw, ph, c.rotation)
        n == c.scale[1]
        d == c.scale[2]
    IN  <<b[1] * n + c.tx * d, b[2] * n + c.tx * d,
          b[3] * n + c.ty * d, b[4] * n + c.ty * d>>

\* lines 129-138: one iteration of the loop
merge_page ==
    /\ pc = "compose"
    /\ LoopCondition
    /\ merged' = Append(merged, MergeCall(i))
    /\ i' = i + 1
    /\ log' = Append(log, "compose")
    /\ UNCHANGED <<env, pc, error, warned, opened, size, width, height, orientation,
                   x_translation, y_translation, scale, new_pdf, out_files>>

\* variant: the failure is caught and the loop goes on to the next page
merge_page_fails_swallowed ==
    /\ pc = "compose"
    /\ LoopCondition
    /\ error' = "ComposeError"
    /\ i' = i + 1
    /\ UNCHANGED <<env, pc, warned, opened, size, width, height, orientation,
                   x_translation, y_translation, scale, new_pdf, merged, out_files, log>>

\* lines 130-137: getPage or the merge raises on a page that cannot be read
merge_page_fails ==
    /\ pc = "compose"
    /\ LoopCondition
    /\ Raise("ComposeError")
    /\ UNCHANGED <<env, warned, opened, size, layout, merged, out_files, log>>

\* variant: the writer is written out inside the loop
write_output_in_loop ==
    /\ pc = "compose"
    /\ out_files' = out_files + 1
    /\ log' = Append(log, "write")
    /\ pc' = IF LoopCondition THEN "compose" ELSE "done"
    /\ UNCHANGED <<env, error, warned, opened, size, layout, merged>>

\* lines 129, 140-145: the loop ends and the writer is written out
write_output ==
    /\ pc = "compose"
    /\ ~LoopCondition
    /\ out_files' = out_files + 1
    /\ log' = Append(log, "write")
    /\ pc' = "done"
    /\ UNCHANGED <<env, error, warned, opened, size, layout, merged>>

Next ==
    \/ check_input_file
    \/ input_size_orientation
    \/ pocket_modder_layout
    \/ merge_page
    \/ merge_page_fails
    \/ write_output

Spec == Init /\ [][Next]_vars

\* main() is sequential code: a step that can be taken is taken
FairSpec == Spec /\ WF_vars(Next)

\* ================================================================ claims
\* the pages a run may compose: min(8, page count)
PageQuota == IF NumPages < 8 THEN NumPages ELSE 8

\* the longer and the shorter side returned by input_size_orientation
LongSide == IF size[1] > size[2] THEN size[1] ELSE size[2]

ShortSide == IF size[1] > size[2] THEN size[2] ELSE size[1]

\* C1: the composed pages are 0 .. min(8, n)-1, each once, in ascending order;
\* never a page >= 8 or >= n; a run that ends normally has composed all of
\* them, and composing the last of them leaves the run without an error.
C1_PagesComposed ==
    /\ Len(merged) <= PageQuota
    /\ \A k \in 1..Len(merged) : merged[k].page = k - 1
    /\ pc = "done" => Len(merged) = PageQuota
    /\ Len(merged) = PageQuota /\ pc \in {"compose", "done"} => error = "none"

C1_Witness == pc = "done" /\ NumPages > 8 /\ Len(merged) = 8

\* C2: page k is composed at (m_k * xStep, yStep, r_k) of the table of the
\* detected orientation; xStep = (longer side / 4) / 0.3528 and
\* yStep = (shorter side / 2) / 0.3528.  In units of 1/1764 point a length of
\* L mm is L / 0.3528 * 1764 = L * 5000, so xStep = longer side * 1250 and
\* yStep = shorter side * 2500.
PortraitTable ==
    <<  <<1, 180>>, <<0, 0>>, <<1, 0>>, <<2, 0>>,
        <<3, 0>>, <<4, 180>>, <<3, 180>>, <<2, 180>> >>

LandscapeTable ==
    <<  <<0, 270>>, <<1, 90>>, <<2, 90>>, <<3, 90>>,
        <<4, 90>>, <<3, 270>>, <<2, 270>>, <<1, 270>> >>

C2_PlacementTable ==
    \A k \in 1..Len(merged) :
        LET row == IF size[1] > size[2] THEN LandscapeTable[k] ELSE PortraitTable[k]
        IN  /\ merged[k].tx = row[1] * (LongSide * 1250)
            /\ merged[k].ty = ShortSide * 2500
            /\ merged[k].rotation = row[2]

C2_Witness == Len(merged) = 8 /\ size[3] = "Landscape" /\ media_box = <<842, 595>>

\* C3 as claimed: the blank page is as wide and as high as the input's first
\* page, to within one working unit (1 mm).
C3_SameWidthAndHeight ==
    new_pdf # <<>> =>
        /\ Abs(new_pdf[1] - media_box[1] * SubPt) <= ToPoints(1, 1)
        /\ Abs(new_pdf[2] - media_box[2] * SubPt) <= ToPoints(1, 1)

\* C3 amended: the blank page is as wide as the longer and as high as the
\* shorter side of the input's first page, each to within half a working unit
\* (0.5 mm); so a Landscape input keeps its width and height and a Portrait
\* input has them exchanged.  (L mm are L * 5000 units of 1/1764 point.)
C3_SameSheetLaidLandscape ==
    new_pdf # <<>> =>
        /\ new_pdf[1] = LongSide * 5000
        /\ new_pdf[2] = ShortSide * 5000
        /\ 2 * Abs(new_pdf[1] - Max(media_box[1], media_box[2]) * SubPt) <= ToPoints(1, 1)
        /\ 2 * Abs(new_pdf[2] - Min(media_box[1], media_box[2]) * SubPt) <= ToPoints(1, 1)
        /\ size[3] = "Landscape" =>
              /\ 2 * Abs(new_pdf[1] - media_box[1] * SubPt) <= ToPoints(1, 1)
              /\ 2 * Abs(new_pdf[2] - media_box[2] * SubPt) <= ToPoints(1, 1)

C3_Witness ==
    /\ new_pdf # <<>>
    /\ size[3] = "Portrait"
    /\ media_box = <<595, 842>>
    /\ new_pdf[1] > new_pdf[2]

\* the grid: 4 columns and 2 rows of the blank page
CellW == new_pdf[1] \div 4

CellH == new_pdf[2] \div 2

\* the box of composed page k, drawn from the page's media box
TrueFootprint(k) == Footprint(merged[k], media_box[1] * SubPt, media_box[2] * SubPt)

\* the box of composed page k, drawn from the page's sides in whole mm
NominalFootprint(k) == Footprint(merged[k], ToPoints(size[1], 1), ToPoints(size[2], 1))

\* the grid cell <<column, row>> the middle of a box lies in
CellOf(f, d) == << (f[1] + f[2]) \div (2 * CellW * d), (f[3] + f[4]) \div (2 * CellH * d) >>

\* box f lies in cell c, give or take slack (in 1/SubPt point) on each side
InCell(f, d, c, slack) ==
    /\ f[1] >= c[1] * CellW * d - slack * d
    /\ f[2] <= (c[1] + 1) * CellW * d + slack * d
    /\ f[3] >= c[2] * CellH * d - slack * d
    /\ f[4] <= (c[2] + 1) * CellH * d + slack * d

\* box f is exactly cell c
IsCell(f, d, c) ==
    /\ f[1] = c[1] * CellW * d
    /\ f[2] = (c[1] + 1) * CellW * d
    /\ f[3] = c[2] * CellH * d
    /\ f[4] = (c[2] + 1) * CellH * d

OnGrid(c) == c[1] \in 0..3 /\ c[2] \in 0..1

\* C4 as claimed: with all 8 pages composed the footprints tile the sheet as a
\* 4 x 2 grid: each lies in the sheet, in a cell of its own, none overlaps
\* another and nothing is left uncovered, i.e. each footprint is its cell.
C4_ExactTiling ==
    Len(merged) = 8 =>
        /\ \A k \in 1..8 :
              /\ OnGrid(CellOf(TrueFootprint(k), scale[2]))
              /\ IsCell(TrueFootprint(k), scale[2], CellOf(TrueFootprint(k), scale[2]))
        /\ \A j, k \in 1..8 :
              j # k => CellOf(TrueFootprint(j), scale[2]) # CellOf(TrueFootprint(k), scale[2])

\* C4 amended: when the pages all have the first page's media box, every
\* composed page lies in a cell of its own of the 4 x 2 grid: a page of the
\* detected whole-mm size exactly inside the cell, the page of the media box
\* to within 1 point of rounding on each side; the cell need not be covered.
C4_OnePagePerCell ==
    /\ \A k \in 1..Len(merged) :
          /\ OnGrid(CellOf(TrueFootprint(k), scale[2]))
          /\ CellOf(NominalFootprint(k), scale[2]) = CellOf(TrueFootprint(k), scale[2])
          /\ InCell(NominalFootprint(k), scale[2], CellOf(TrueFootprint(k), scale[2]), 0)
          /\ InCell(TrueFootprint(k), scale[2], CellOf(TrueFootprint(k), scale[2]), SubPt)
    /\ \A j, k \in 1..Len(merged) :
          j # k => CellOf(TrueFootprint(j), scale[2]) # CellOf(TrueFootprint(k), scale[2])

C4_Witness ==
    /\ Len(merged) = 8
    /\ media_box = <<595, 842>>
    /\ ~IsCell(TrueFootprint(1), scale[2], CellOf(TrueFootprint(1), scale[2]))

\* C5: every compose call gets the one scale min((h/4)/w, (w/2)/h) of the
\* normalized sides w <= h: it is positive, it is one of the two ratios, and
\* scale * w <= h/4 and scale * h <= w/2.
C5_ScaleFitsCell ==
    \A k \in 1..Len(merged) :
        LET n == merged[k].scale[1]
            d == merged[k].scale[2]
        IN  /\ n > 0 /\ d > 0
            /\ merged[k].scale = merged[1].scale
            /\ 4 * n * ShortSide <= LongSide * d
            /\ 2 * n * LongSide <= ShortSide * d
            /\ 4 * n * ShortSide = LongSide * d \/ 2 * n * LongSide = ShortSide * d

C5_Witness ==
    /\ Len(merged) = 8
    /\ media_box = <<595, 842>>
    /\ merged[8].scale = <<35, 99>>

\* the arguments whose last three characters spell pdf in some case
PdfNamed ==
    { <<"a", ".", "p", "d", "f">>, <<"A", ".", "P", "D", "F">>, <<"d", "/", "p", "d", "f">> }

NothingTouched ==
    /\ pc = "error"
    /\ opened = 0
    /\ size = <<>>
    /\ new_pdf = <<>>
    /\ merged = <<>>
    /\ out_files = 0

\* C6: once check_input_file has run, a path that is no file has ended the run
\* with FileNotFoundError, and a file not named ...pdf has ended it with
\* ValueError; in both cases the document was never opened, no geometry was
\* detected, nothing was composed and nothing was written.
C6_RejectedBeforeDocumentIO ==
    pc # "check" =>
        /\ ~isfile => error = "FileNotFoundError" /\ NothingTouched
        /\ isfile /\ input_file \notin PdfNamed => error = "ValueError" /\ NothingTouched

C6_Witness ==
    /\ error = "ValueError"
    /\ input_file = <<"a", ".", "t", "x", "t">>
    /\ opened = 0

\* C7: a write has happened only if all min(8, n) pages were composed without
\* an error; a run ended by a failed compose has written nothing.
C7_NoPartialSheetWritten ==
    /\ out_files > 0 => Len(merged) = PageQuota /\ error = "none"
    /\ error = "ComposeError" => out_files = 0 /\ pc = "error"

C7_Witness == error = "ComposeError" /\ Len(merged) >= 1 /\ out_files = 0

\* C8: for an existing ...pdf file the warning is printed exactly when there
\* are more than 8 pages and check_input_file returns normally either way; a
\* run that has warned goes on until it has composed pages 0..7 and written
\* the file, unless a later step (the layout or a compose) raises.
C8_WarningDoesNotStopTheRun ==
    /\ [](pc # "check" /\ isfile /\ input_file \in PdfNamed =>
            /\ warned = (NumPages > 8)
            /\ error \notin {"FileNotFoundError", "ValueError"})
    /\ [](NumPages <= 8 => ~warned)
    /\ [](warned /\ pc = "done" => Len(merged) = 8 /\ merged[8].page = 7 /\ out_files = 1)
    /\ (warned ~> (pc = "done" \/ error \in {"ZeroDivisionError", "ComposeError"}))

C8_Witness == warned /\ pc = "done" /\ NumPages = 10 /\ out_files = 1

\* C9: input_size_orientation returns Landscape exactly when width > height;
\* 210 x 297 and 210 x 210 are Portrait, 297 x 210 is Landscape.
C9_OrientationRule ==
    size # <<>> =>
        /\ size[3] \in {"Landscape", "Portrait"}
        /\ size[3] = "Landscape" <=> size[1] > size[2]
        /\ size[1] = 210 /\ size[2] = 297 => size[3] = "Portrait"
        /\ size[1] = 297 /\ size[2] = 210 => size[3] = "Landscape"
        /\ size[1] = 210 /\ size[2] = 210 => size[3] = "Portrait"

C9_Witness == size = <<210, 210, "Portrait">>

\* the place of a step in the order validate, detect, sheet, compose, write
Rank(step) ==
    CASE step = "validate" -> 1
      [] step = "detect" -> 2
      [] step = "sheet" -> 3
      [] step = "compose" -> 4
      [] step = "write" -> 5

Count(step) == Cardinality({k \in 1..Len(log) : log[k] = step})

\* C10: the steps of a run come in the order validate, detect geometry, create
\* sheet, compose, write; only compose repeats; a compose has the sheet before
\* it and no write before it; a run that ends normally has created one sheet
\* and written once, and the write is its last step.
C10_StepOrder ==
    /\ \A j, k \in 1..Len(log) :
          j < k => /\ Rank(log[j]) <= Rank(log[k])
                   /\ Rank(log[j]) = Rank(log[k]) => log[j] = "compose"
    /\ Len(log) > 0 => log[1] = "validate"
    /\ Count("compose") > 0 => Count("sheet") = 1 /\ Count("detect") = 1
    /\ Count("write") > 0 => Count("sheet") = 1
    /\ Count("compose") = Len(merged)
    /\ Count("write") = out_files
    /\ Count("sheet") = (IF new_pdf = <<>> THEN 0 ELSE 1)
    /\ pc = "done" => Count("sheet") = 1 /\ Count("write") = 1 /\ log[Len(log)] = "write"

C10_Witness == pc = "done" /\ Count("compose") = 8 /\ Count("write") = 1

====
